---- MODULE Spec2Model ----
(***************************************************************************)
(* Model of the KP calculator core: the pricing optimizer                  *)
(* (src/src/calculator/pricing.py) and the product matcher                 *)
(* (src/src/matching/product_matcher.py).                                  *)
(*                                                                         *)
(* Units.  Money is an integer number of mills (1/1000 of a currency       *)
(* unit), so that prices below one hundredth and costs with three decimals *)
(* exist; round(x, 2) is rounding to a multiple of 10 mills.  Totals and   *)
(* deltas are kept in micro-units (mills * 1000), which makes              *)
(* competitor_total * (1 - target_discount_percent / 100) an integer when  *)
(* target_discount_percent is given in tenths of a percent.                *)
(***************************************************************************)
EXTENDS Integers, Sequences, FiniteSets, TLC

\* ------------------------------------------------------------------ bounds
MaxLines == 2
MaxRuns == 2
\* the number of edits the user makes in one session
MaxEdits == 2

\* ------------------------------------------------------- program constants
\* 0.01 currency units, in mills (competitor_price - 0.01)
Undercut == 10
\* one hundredth of a currency unit, in mills: the grid of round(x, 2)
Cent == 10
\* the loop threshold 0.01, in micro-units
BreakEps == 10000
\* the tolerance 0.5, in micro-units
Tolerance == 500000
\* cost * 1.30, in hundredths
MarkupFactor == 130
\* margin_pct of a line that cannot be reduced
NoMargin == -999

\* ------------------------------------------------------------ input domains
\* competitor prices of lines that have a competitor (1.000 and 1.996)
Comps == {1000, 1996}
Costs == {0, 996, 1004}
Qtys == {1, 3, 100}
\* target_discount_percent in tenths of a percent: 0.1 % and 10 %
Discounts == {1, 100}
\* the fallback markup (percent) the caller of price() asks for
Markups == {30, 50}

Row(comp, cost, qty) ==
    [comp |-> comp, cost |-> cost, qty |-> qty, our |-> 0]

\* competitive lines, lines whose competitor price is below a cent (0.004),
\* and lines without a competitor
LineDomain ==
    {Row(c, k, q) : c \in Comps, k \in Costs, q \in Qtys}
    \cup {Row(4, k, q) : k \in {0, 1004}, q \in {1, 100}}
    \cup {Row(0, k, 1) : k \in {0, 996}}

\* Scenario D of the spec: competitor prices 100, 200, 300, quantity 1 each
ScenarioCosts == {0, 50000, 99900, 350000}
ScenarioD ==
    {<<Row(100000, c1, 1), Row(200000, c2, 1), Row(300000, c3, 1)>> :
        c1 \in ScenarioCosts, c2 \in ScenarioCosts, c3 \in ScenarioCosts}

\* Scenario E of the spec: no competitor match, cost 40.00
ScenarioE == {<<Row(0, 40000, 1)>>}

\* a cost between competitor_price - 0.01 and that price rounded to two
\* decimals (1.986 <= 1.988 < 1.99)
ScenarioG == {<<Row(1996, 1988, 100)>>}

\* a line whose cost rounds up to its floor price and a line of 163 pieces
ScenarioH == {<<Row(1996, 996, 1), Row(1500, 500, 163)>>}

\* two competitive lines at 100.00, the less profitable one in seven pieces
ScenarioF == {<<Row(100000, 90000, 7), Row(100000, 50000, 1)>>}

Inputs ==
    UNION {[1..n -> LineDomain] : n \in 1..MaxLines}

\* -------------------------------------------------------------- arithmetic
Max(a, b) == IF a >= b THEN a ELSE b
Min(a, b) == IF a <= b THEN a ELSE b
Abs(a) == IF a >= 0 THEN a ELSE -a
Front(s) == SubSeq(s, 1, Len(s) - 1)
Last(s) == s[Len(s)]

\* n / d rounded to the nearest integer, ties to even (d > 0)
RoundHalfEven(n, d) ==
    LET q == n \div d
        r == n % d
    IN  IF 2 * r < d THEN q
        ELSE IF 2 * r > d THEN q + 1
        ELSE IF q % 2 = 0 THEN q ELSE q + 1

\* round(num / den, 2) for an amount num / den in mills
round2(num, den) == Cent * RoundHalfEven(num, den * Cent)

RECURSIVE PosFracLess(_, _, _, _)
\* a / b < c / d for a, c >= 0 and b, d > 0, without forming products
PosFracLess(a, b, c, d) ==
    LET qa == a \div b
        qc == c \div d
        ra == a % b
        rc == c % d
    IN  IF qa # qc THEN qa < qc
        ELSE IF rc = 0 THEN FALSE
        ELSE IF ra = 0 THEN TRUE
        ELSE PosFracLess(d, rc, b, ra)

\* x < y for fractions <<numerator, denominator>> with positive denominators
FracLess(x, y) ==
    LET qx == x[1] \div x[2]
        qy == y[1] \div y[2]
    IN  IF qx # qy THEN qx < qy
        ELSE PosFracLess(x[1] % x[2], x[2], y[1] % y[2], y[2])

RECURSIVE SumTo(_, _)
SumTo(f, n) == IF n = 0 THEN 0 ELSE f[n] + SumTo(f, n - 1)

RECURSIVE InsertAsc(_, _)
InsertAsc(t, x) ==
    IF t = <<>> THEN <<x>>
    ELSE IF FracLess(x.key, Last(t).key)
         THEN Append(InsertAsc(Front(t), x), Last(t))
         ELSE Append(t, x)

RECURSIVE SortAsc(_)
\* list.sort(key=...): stable, ascending
SortAsc(s) == IF s = <<>> THEN <<>> ELSE InsertAsc(SortAsc(Front(s)), Last(s))

RECURSIVE InsertDesc(_, _)
InsertDesc(t, x) ==
    IF t = <<>> THEN <<x>>
    ELSE IF FracLess(Last(t).key, x.key)
         THEN Append(InsertDesc(Front(t), x), Last(t))
         ELSE Append(t, x)

RECURSIVE SortDesc(_)
\* list.sort(key=..., reverse=True): stable, descending
SortDesc(s) == IF s = <<>> THEN <<>> ELSE InsertDesc(SortDesc(Front(s)), Last(s))

\* ------------------------------------------------------------------- state
VARIABLES
    df,                       \* the caller's line collection
    target_discount_percent,  \* tenths of a percent
    fallback_markup_percent,  \* what the caller wants for lines with no competitor
    result,                   \* result = df.copy(), with the column our
    pc,                       \* position inside calculate_prices
    queue,                    \* the rest of margins / correction_candidates
    remaining,                \* remaining_delta, then remaining_correction
    target_total,
    delta,
    flagged,                  \* the shortfall warning was printed
    run,                      \* number of the current invocation
    prev,                     \* what the previous invocation returned
    totals,                   \* the columns sum, margin, margin_percent
    residual                  \* remaining_correction as step 6 first computes it

pricingVars == <<df, target_discount_percent, fallback_markup_percent, result,
                 pc, queue, remaining, target_total, delta, flagged, run, prev,
                 totals, residual>>

\* the inputs and the result of one call of packaging_compatible
VARIABLES pkg1, pkg2, compatible, compared

packagingVars == <<pkg1, pkg2, compatible, compared>>

\* the inputs and the output of match_products
VARIABLES request_df, cost_df, competitor_df, result_data

matchingVars == <<request_df, cost_df, competitor_df, result_data>>

\* the arguments and the result of one call of adjust_cost_for_unit, and
\* the adjusted cost converted back to the catalog packaging
VARIABLES arg_cost, arg_tara, arg_unit, adjusted_cost, converted_back, unit_pc

unitVars == <<arg_cost, arg_tara, arg_unit, adjusted_cost, converted_back, unit_pc>>

\* the argument and the result of one call of calculate_economics
VARIABLES econ_df, economics, summarized

economicsVars == <<econ_df, economics, summarized>>

\* the priced sheet kept in the session, the markup input, and what
\* recalculate_totals returned for the sheet
VARIABLES data, markup, pressed, returned, edits

sessionVars == <<data, markup, pressed, returned, edits>>

vars == <<pricingVars, packagingVars, matchingVars, unitVars, economicsVars,
          sessionVars>>

\* ----------------------------------------------------------------- pricing
\* a slip: the undercut is taken from the line's own previous price
InitialPrice_FromOwn(row) ==
    IF row.our > 0 THEN round2(row.our - Undercut, 1)
    ELSE IF row.comp <= 0
         THEN IF row.cost > 0 THEN round2(row.cost * MarkupFactor, 100) ELSE 0
         ELSE round2(row.comp - Undercut, 1)

\* a slip: the markup is the one the caller asks for
InitialPrice_CallerMarkup(row) ==
    IF row.comp <= 0
    THEN IF row.cost > 0
         THEN round2(row.cost * (100 + fallback_markup_percent), 100)
         ELSE 0
    ELSE round2(row.comp - Undercut, 1)

\* a slip: the competitor's price is taken as it is
InitialPrice_NoUndercut(row) ==
    IF row.comp <= 0
    THEN IF row.cost > 0 THEN round2(row.cost * MarkupFactor, 100) ELSE 0
    ELSE round2(row.comp, 1)

\* Step 1
InitialPrice(row) ==
    IF row.comp <= 0
    THEN IF row.cost > 0 THEN round2(row.cost * MarkupFactor, 100) ELSE 0
    ELSE round2(row.comp - Undercut, 1)

has_comp(rows) == {i \in DOMAIN rows : rows[i].comp > 0}

competitor_total(rows) ==
    SumTo([i \in DOMAIN rows |->
              IF rows[i].comp > 0 THEN rows[i].comp * rows[i].qty ELSE 0],
          Len(rows))

\* sum of our * qty over the lines with a competitor price, in micro-units
our_comp_total(rows) ==
    1000 * SumTo([i \in DOMAIN rows |->
                     IF rows[i].comp > 0 THEN rows[i].our * rows[i].qty ELSE 0],
                 Len(rows))

\* a slip: the percentage is divided by 10 instead of 100
TargetTotal_NotPercent(rows, d) == competitor_total(rows) * (1000 - 10 * d)

TargetTotal(rows, d) == competitor_total(rows) * (1000 - d)

Eligible(row) == row.our > 0 /\ row.cost > 0 /\ row.qty > 0

margin_pct(row) ==
    IF Eligible(row) THEN <<row.our - row.cost, row.our>> ELSE <<NoMargin, 1>>

\* a slip: the headroom is the distance between price and cost
max_reduction_total_Distance(row) ==
    IF Eligible(row) THEN Abs(row.our - row.cost) * row.qty * 1000 ELSE 0

max_reduction_total(row) ==
    IF Eligible(row) THEN Max(0, row.our - row.cost) * row.qty * 1000 ELSE 0

\* a slip: the most profitable lines come first
margins_Descending(rows) ==
    SortDesc(SelectSeq([i \in 1..Len(rows) |->
                           [idx |-> i,
                            key |-> margin_pct(rows[i]),
                            qty |-> rows[i].qty,
                            max_reduction_total |-> max_reduction_total(rows[i])]],
                       LAMBDA item : rows[item.idx].comp > 0))

\* Step 3: margins, sorted ascending by margin_pct
margins(rows) ==
    SortAsc(SelectSeq([i \in 1..Len(rows) |->
                          [idx |-> i,
                           key |-> margin_pct(rows[i]),
                           qty |-> rows[i].qty,
                           max_reduction_total |-> max_reduction_total(rows[i])]],
                      LAMBDA item : rows[item.idx].comp > 0))

\* a slip: the reduction is added
ReducedPrice_Added(current_price, cost, qty, reduction) ==
    round2(Max(current_price * qty * 1000 + reduction, cost * qty * 1000),
           qty * 1000)

\* Step 4, one line: the new price of a line that absorbs part of the delta
ReducedPrice(current_price, cost, qty, reduction) ==
    round2(Max(current_price * qty * 1000 - reduction, cost * qty * 1000),
           qty * 1000)

\* Step 5, one line
ClampedPrice(row) ==
    IF row.comp > 0 /\ row.our >= row.comp
    THEN round2(row.comp - Undercut, 1)
    ELSE row.our

\* a slip: the lines without a competitor are candidates too
IsCandidate_AnyLine(row) == row.qty > 0 /\ row.our > row.cost

IsCandidate(row) == row.comp > 0 /\ row.qty > 0 /\ row.our > row.cost

\* a slip: the candidates with the thinnest margin come first
correction_candidates_Ascending(rows) ==
    SortAsc(SelectSeq([i \in 1..Len(rows) |->
                          [idx |-> i,
                           key |-> <<rows[i].our - rows[i].cost, rows[i].our>>,
                           qty |-> rows[i].qty,
                           price |-> rows[i].our,
                           cost |-> rows[i].cost,
                           comp |-> rows[i].comp]],
                      LAMBDA item : IsCandidate(rows[item.idx])))

\* Step 6: correction_candidates, sorted descending by margin
correction_candidates(rows) ==
    SortDesc(SelectSeq([i \in 1..Len(rows) |->
                           [idx |-> i,
                            key |-> <<rows[i].our - rows[i].cost, rows[i].our>>,
                            qty |-> rows[i].qty,
                            price |-> rows[i].our,
                            cost |-> rows[i].cost,
                            comp |-> rows[i].comp]],
                       LAMBDA item : IsCandidate(rows[item.idx])))

\* a slip: the corrected price is not bounded by the competitor's
CorrectedPrice_NoCeiling(item, remaining_correction) ==
    Max(round2(item.price * item.qty * 1000 - remaining_correction,
               item.qty * 1000),
        item.cost)

\* a slip: the bound is the competitor's price itself
CorrectedPrice_CeilingAtComp(item, remaining_correction) ==
    Min(Max(round2(item.price * item.qty * 1000 - remaining_correction,
                   item.qty * 1000),
            item.cost),
        round2(item.comp, 1))

\* Step 6, one line: the corrected price
CorrectedPrice(item, remaining_correction) ==
    LET new_p == round2(item.price * item.qty * 1000 - remaining_correction,
                        item.qty * 1000)
        floored == Max(new_p, item.cost)
    IN  IF item.comp > 0
        THEN Min(floored, round2(item.comp - Undercut, 1))
        ELSE floored

\* a slip: a negative margin is shown as zero
line_margin_Clamped(row) == Max(0, round2(row.our - row.cost, 1))

\* (Наша цена - Себестоимость).round(2), in mills
line_margin(row) == round2(row.our - row.cost, 1)

\* (Наша цена * Кол-во).round(2), in mills
line_sum(row) == round2(row.our * row.qty, 1)

\* (Маржа / Наша цена * 100) with inf and NaN replaced by 0, .round(1): in
\* tenths of a percent, computed from the rounded margin
line_margin_percent(row) ==
    IF row.our = 0 THEN 0
    ELSE IF row.our > 0 THEN RoundHalfEven(line_margin(row) * 1000, row.our)
    ELSE RoundHalfEven(- line_margin(row) * 1000, - row.our)

\* the three derived columns of a frame
recalculate_totals(rows) ==
    [i \in DOMAIN rows |->
        [sum |-> line_sum(rows[i]),
         margin |-> line_margin(rows[i]),
         margin_percent |-> line_margin_percent(rows[i])]]

\* ------------------------------------------------------------------ actions
UnitIdle ==
    /\ arg_cost = 0
    /\ arg_tara = [text |-> FALSE, pkg |-> <<>>]
    /\ arg_unit = ""
    /\ adjusted_cost = [cost |-> 0, note |-> ""]
    /\ converted_back = 0
    /\ unit_pc = "idle"

SessionIdle ==
    /\ data = <<>>
    /\ markup = 30
    /\ pressed = FALSE
    /\ returned = <<>>
    /\ edits = 0

EconomicsIdle ==
    /\ econ_df = <<>>
    /\ economics = <<>>
    /\ summarized = FALSE

PackagingIdle ==
    /\ pkg1 = <<>>
    /\ pkg2 = <<>>
    /\ compatible = FALSE
    /\ compared = FALSE

MatchingIdle ==
    /\ request_df = <<>>
    /\ cost_df = <<>>
    /\ competitor_df = <<>>
    /\ result_data = <<>>

InitPrice ==
    /\ PackagingIdle
    /\ MatchingIdle
    /\ UnitIdle
    /\ EconomicsIdle
    /\ SessionIdle
    /\ df \in Inputs \cup ScenarioD \cup ScenarioE \cup ScenarioF
             \cup ScenarioG \cup ScenarioH
    /\ target_discount_percent \in Discounts
    /\ fallback_markup_percent \in Markups
    /\ result = df
    /\ pc = "call"
    /\ queue = <<>>
    /\ remaining = 0
    /\ target_total = 0
    /\ delta = 0
    /\ flagged = FALSE
    /\ run = 1
    /\ prev = <<>>
    /\ totals = <<>>
    /\ residual = 0

\* result = df.copy() and step 1
InitialPricing ==
    /\ UNCHANGED <<packagingVars, matchingVars, unitVars, economicsVars,
                   sessionVars>>
    /\ pc = "call"
    /\ result' = [i \in DOMAIN df |-> [df[i] EXCEPT !.our = InitialPrice(df[i])]]
    /\ pc' = "target"
    /\ UNCHANGED <<df, target_discount_percent, fallback_markup_percent, queue,
                   remaining, target_total, delta, flagged, run, prev, totals,
                   residual>>

\* step 2 and, when delta > 0, the sorted margins of step 3
ComputeDelta ==
    /\ UNCHANGED <<packagingVars, matchingVars, unitVars, economicsVars,
                   sessionVars>>
    /\ pc = "target"
    /\ IF has_comp(result) = {}
       THEN /\ pc' = "clamp"
            /\ UNCHANGED <<target_total, delta, queue, remaining>>
       ELSE LET tt == TargetTotal(result, target_discount_percent)
                dl == our_comp_total(result) - tt
            IN  /\ target_total' = tt
                /\ delta' = dl
                /\ IF dl > 0
                   THEN /\ queue' = margins(result)
                        /\ remaining' = dl
                        /\ pc' = "redistribute"
                   ELSE /\ pc' = "clamp"
                        /\ UNCHANGED <<queue, remaining>>
    /\ UNCHANGED <<df, target_discount_percent, fallback_markup_percent, result,
                   flagged, run, prev, totals,
                   residual>>

\* one iteration of the loop of step 4
RedistributeStep ==
    /\ UNCHANGED <<packagingVars, matchingVars, unitVars, economicsVars,
                   sessionVars>>
    /\ pc = "redistribute"
    /\ queue # <<>>
    /\ remaining > BreakEps
    /\ LET item == Head(queue)
           row == result[item.idx]
       IN  IF item.max_reduction_total <= 0
           THEN UNCHANGED <<result, remaining>>
           ELSE LET reduction == Min(remaining, item.max_reduction_total)
                    new_price == ReducedPrice(row.our, row.cost, item.qty, reduction)
                IN  /\ result' = [result EXCEPT ![item.idx].our = new_price]
                    /\ remaining' = remaining - (row.our - new_price) * item.qty * 1000
    /\ queue' = Tail(queue)
    /\ UNCHANGED <<df, target_discount_percent, fallback_markup_percent, pc,
                   target_total, delta, flagged, run, prev, totals,
                   residual>>

\* the loop of step 4 ends; the warning is printed when remaining_delta > 0.5
RedistributeEnd ==
    /\ UNCHANGED <<packagingVars, matchingVars, unitVars, economicsVars,
                   sessionVars>>
    /\ pc = "redistribute"
    /\ queue = <<>> \/ remaining <= BreakEps
    /\ flagged' = (remaining > Tolerance)
    /\ queue' = <<>>
    /\ pc' = "clamp"
    /\ UNCHANGED <<df, target_discount_percent, fallback_markup_percent, result,
                   remaining, target_total, delta, run, prev, totals,
                   residual>>

\* step 5
SafetyClamp ==
    /\ UNCHANGED <<packagingVars, matchingVars, unitVars, economicsVars,
                   sessionVars>>
    /\ pc = "clamp"
    /\ result' = [i \in DOMAIN result |->
                     [result[i] EXCEPT !.our = ClampedPrice(result[i])]]
    /\ pc' = "correct"
    /\ UNCHANGED <<df, target_discount_percent, fallback_markup_percent, queue,
                   remaining, target_total, delta, flagged, run, prev, totals,
                   residual>>

\* step 6: remaining_correction and the sorted candidates
CorrectionStart ==
    /\ UNCHANGED <<packagingVars, matchingVars, unitVars, economicsVars,
                   sessionVars>>
    /\ pc = "correct"
    /\ IF has_comp(result) = {}
       THEN /\ pc' = "totals"
            /\ UNCHANGED <<queue, remaining, residual>>
       ELSE LET rc == our_comp_total(result) - target_total
            IN  /\ remaining' = rc
                /\ residual' = rc
                /\ IF Abs(rc) > Tolerance
                   THEN /\ queue' = correction_candidates(result)
                        /\ pc' = "correcting"
                   ELSE /\ pc' = "totals"
                        /\ UNCHANGED queue
    /\ UNCHANGED <<df, target_discount_percent, fallback_markup_percent, result,
                   target_total, delta, flagged, run, prev, totals>>

\* one iteration of the loop of step 6
CorrectionStep ==
    /\ UNCHANGED <<packagingVars, matchingVars, unitVars, economicsVars,
                   sessionVars>>
    /\ pc = "correcting"
    /\ queue # <<>>
    /\ Abs(remaining) > BreakEps
    /\ LET item == Head(queue)
           new_p == CorrectedPrice(item, remaining)
       IN  /\ result' = [result EXCEPT ![item.idx].our = new_p]
           /\ remaining' = remaining - (item.price - new_p) * item.qty * 1000
    /\ queue' = Tail(queue)
    /\ UNCHANGED <<df, target_discount_percent, fallback_markup_percent, pc,
                   target_total, delta, flagged, run, prev, totals,
                   residual>>

CorrectionEnd ==
    /\ UNCHANGED <<packagingVars, matchingVars, unitVars, economicsVars,
                   sessionVars>>
    /\ pc = "correcting"
    /\ queue = <<>> \/ Abs(remaining) <= BreakEps
    /\ queue' = <<>>
    /\ pc' = "totals"
    /\ UNCHANGED <<df, target_discount_percent, fallback_markup_percent, result,
                   remaining, target_total, delta, flagged, run, prev, totals,
                   residual>>

\* the derived columns: Сумма, Маржа, Маржа % (the margin may be negative)
ComputeTotals ==
    /\ UNCHANGED <<packagingVars, matchingVars, unitVars, economicsVars,
                   sessionVars>>
    /\ pc = "totals"
    /\ totals' = recalculate_totals(result)
    /\ pc' = "done"
    /\ UNCHANGED <<df, target_discount_percent, fallback_markup_percent, result,
                   queue, remaining, target_total, delta, flagged, run, prev,
                   residual>>

\* price() is called again on what it returned, with the same parameters
Reprice ==
    /\ UNCHANGED <<packagingVars, matchingVars, unitVars, economicsVars,
                   sessionVars>>
    /\ pc = "done"
    /\ run < MaxRuns
    /\ df' = result
    /\ prev' = result
    /\ run' = run + 1
    /\ pc' = "call"
    /\ queue' = <<>>
    /\ remaining' = 0
    /\ target_total' = 0
    /\ delta' = 0
    /\ flagged' = FALSE
    /\ residual' = 0
    /\ UNCHANGED <<target_discount_percent, fallback_markup_percent, result,
                   totals>>

NextPrice ==
    \/ InitialPricing
    \/ ComputeDelta
    \/ RedistributeStep
    \/ RedistributeEnd
    \/ SafetyClamp
    \/ CorrectionStart
    \/ CorrectionStep
    \/ CorrectionEnd
    \/ ComputeTotals
    \/ Reprice

SpecPrice == InitPrice /\ [][NextPrice]_vars

\* --------------------------------------------------------------- packaging
\* A packaging spec is the dict extract_packaging returns: a function from
\* the keys that are present to their values.  weight_g in grams, volume_ml
\* in millilitres, fat_pct in hundredths of a percent, count in pieces.
PkgKeys == {"weight_g", "volume_ml", "fat_pct", "count"}

\* the dict with the keys whose value is given (0 stands for: not given)
MkPkg(w, v, f, n) ==
    LET c == [weight_g |-> w, volume_ml |-> v, fat_pct |-> f, count |-> n]
    IN  [k \in {x \in PkgKeys : c[x] # 0} |-> c[k]]

PkgDomain ==
    {MkPkg(w, v, f, n) : w \in {0, 400, 401, 402}, v \in {0, 1000, 1002},
                         f \in {0, 250, 260, 261}, n \in {0, 10, 12}}

\* abs(a - b) > 1 for weights and volumes
WeightTolerance == 1
\* abs(a - b) > 0.1 for fat, in hundredths of a percent
FatTolerance == 10

Has(pkg, k) == k \in DOMAIN pkg

packaging_compatible(p1, p2) ==
    LET has1 == DOMAIN p1 # {} /\ (Has(p1, "weight_g") \/ Has(p1, "volume_ml"))
        has2 == DOMAIN p2 # {} /\ (Has(p2, "weight_g") \/ Has(p2, "volume_ml"))
    IN  IF has1 # has2 THEN FALSE
        ELSE IF /\ Has(p1, "weight_g") /\ Has(p2, "weight_g")
                /\ Abs(p1["weight_g"] - p2["weight_g"]) > WeightTolerance
             THEN FALSE
        ELSE IF /\ Has(p1, "volume_ml") /\ Has(p2, "volume_ml")
                /\ Abs(p1["volume_ml"] - p2["volume_ml"]) > WeightTolerance
             THEN FALSE
        ELSE IF /\ Has(p1, "fat_pct") /\ Has(p2, "fat_pct")
                /\ Abs(p1["fat_pct"] - p2["fat_pct"]) > FatTolerance
             THEN FALSE
        ELSE IF /\ Has(p1, "count") /\ Has(p2, "count")
                /\ p1["count"] # p2["count"]
             THEN FALSE
        ELSE TRUE

PricingIdle ==
    /\ df = <<>>
    /\ target_discount_percent = 1
    /\ fallback_markup_percent = 30
    /\ result = <<>>
    /\ pc = "idle"
    /\ queue = <<>>
    /\ remaining = 0
    /\ target_total = 0
    /\ delta = 0
    /\ flagged = FALSE
    /\ run = 1
    /\ prev = <<>>
    /\ totals = <<>>
    /\ residual = 0

InitPackaging ==
    /\ PricingIdle
    /\ MatchingIdle
    /\ UnitIdle
    /\ EconomicsIdle
    /\ SessionIdle
    /\ pkg1 \in PkgDomain
    /\ pkg2 \in PkgDomain
    /\ compatible = FALSE
    /\ compared = FALSE

ComparePackaging ==
    /\ ~compared
    /\ compatible' = packaging_compatible(pkg1, pkg2)
    /\ compared' = TRUE
    /\ UNCHANGED <<pkg1, pkg2, pricingVars, matchingVars, unitVars, economicsVars,
                   sessionVars>>

NextPackaging == ComparePackaging

SpecPackaging == InitPackaging /\ [][NextPackaging]_vars

\* ---------------------------------------------------------------- matching
\* A product name is what the matcher reads of it: norm, the result of
\* normalize_name ("" when nothing is left), and pkg, the result of
\* extract_packaging.  The units of measure кг, г, л, мл, шт are written
\* "kg", "g", "l", "ml", "sht".
Name(norm, pkg) == [norm |-> norm, pkg |-> pkg]

\* the column Тара of a cost row: whether the text is non-empty, and what
\* extract_packaging reads in it
Tara(text, pkg) == [text |-> text, pkg |-> pkg]
NoTara == Tara(FALSE, <<>>)

\* fuzz.ratio, fuzz.token_sort_ratio and fuzz.token_set_ratio are library
\* functions of the two normalised names; here the names lie on a line and
\* the best of the three ratios is 100 minus their distance.
Position(norm) ==
    CASE norm = "a" -> 0
      [] norm = "a5" -> 5
      [] norm = "a8" -> 8
      [] norm = "a10" -> 10
      [] norm = "a11" -> 11
      [] OTHER -> 70

Score(target_norm, candidate_norm) ==
    Max(0, 100 - Abs(Position(target_norm) - Position(candidate_norm)))

\* the acceptance threshold of find_best_match
Threshold == 90

get_row_packaging(row) ==
    IF row.tara.text /\ DOMAIN row.tara.pkg # {}
    THEN row.tara.pkg
    ELSE row.name.pkg

\* max(..., key=score) and the scan "if score > best_score": the first of
\* the rows of S with the highest score
FirstBest(S, sc(_)) ==
    CHOOSE i \in S : \A j \in S : sc(j) < sc(i) \/ (sc(j) = sc(i) /\ j >= i)

NoMatch == [row |-> 0, score |-> 0, name |-> 0]

\* a slip: the threshold is not applied to the candidates
find_best_match_NoThreshold(target, candidates) ==
    LET sc(i) == Score(target.norm, candidates[i].name.norm)
        named == {i \in DOMAIN candidates : candidates[i].name.norm # ""}
    IN  IF Len(candidates) = 0 \/ target.norm = "" \/ named = {} THEN NoMatch
        ELSE LET best == FirstBest(named, sc)
             IN  [row |-> best, score |-> sc(best), name |-> best]

\* a slip: the best accepted candidate is taken whatever its packaging
find_best_match_IgnorePackaging(target, candidates) ==
    LET sc(i) == Score(target.norm, candidates[i].name.norm)
        named == {i \in DOMAIN candidates : candidates[i].name.norm # ""}
        matches == {i \in named : sc(i) >= Threshold}
        scored == {i \in named : sc(i) > 0}
    IN  IF Len(candidates) = 0 \/ target.norm = "" THEN NoMatch
        ELSE IF matches = {}
        THEN IF scored = {} THEN NoMatch
             ELSE LET best == FirstBest(scored, sc)
                  IN  [row |-> 0, score |-> sc(best), name |-> best]
        ELSE LET best == FirstBest(matches, sc)
             IN  [row |-> best, score |-> sc(best), name |-> best]

\* the row found (0 for None), its score and the row whose name is reported
find_best_match(target, candidates) ==
    LET sc(i) == Score(target.norm, candidates[i].name.norm)
        named == {i \in DOMAIN candidates : candidates[i].name.norm # ""}
        matches == {i \in named : sc(i) >= Threshold}
        compatible_matches ==
            {i \in matches :
                packaging_compatible(target.pkg, get_row_packaging(candidates[i]))}
        scored == {i \in named : sc(i) > 0}
    IN  IF Len(candidates) = 0 \/ target.norm = "" THEN NoMatch
        ELSE IF matches = {}
        THEN IF scored = {} THEN NoMatch
             ELSE LET best == FirstBest(scored, sc)
                  IN  [row |-> 0, score |-> sc(best), name |-> best]
        ELSE IF compatible_matches # {}
        THEN LET best == FirstBest(compatible_matches, sc)
             IN  [row |-> best, score |-> sc(best), name |-> best]
        ELSE LET best == FirstBest(matches, sc)
             IN  [row |-> best, score |-> sc(best), name |-> best]

\* the ratio target / source as <<numerator, denominator>>, <<>> for None
calc_packaging_ratio(target_pkg, source_pkg) ==
    IF /\ Has(target_pkg, "weight_g") /\ Has(source_pkg, "weight_g")
       /\ source_pkg["weight_g"] > 0
    THEN <<target_pkg["weight_g"], source_pkg["weight_g"]>>
    ELSE IF /\ Has(target_pkg, "volume_ml") /\ Has(source_pkg, "volume_ml")
            /\ source_pkg["volume_ml"] > 0
    THEN <<target_pkg["volume_ml"], source_pkg["volume_ml"]>>
    ELSE <<>>

\* <<>> for None
unit_to_base(unit_str) ==
    CASE unit_str = "kg" -> [weight_g |-> 1000]
      [] unit_str \in {"g", "gr"} -> [weight_g |-> 1]
      [] unit_str = "l" -> [volume_ml |-> 1000]
      [] unit_str = "ml" -> [volume_ml |-> 1]
      [] OTHER -> <<>>

\* a slip: the cost is divided by the amount on the tag and the amount of
\* the requested unit is forgotten
adjust_cost_for_unit_PerGram(cost_price, cost_tara, request_unit) ==
    LET tara_pkg == cost_tara.pkg
        target_base == unit_to_base(request_unit)
        amount ==
            IF Has(target_base, "weight_g") /\ Has(tara_pkg, "weight_g")
            THEN tara_pkg["weight_g"]
            ELSE IF Has(target_base, "volume_ml") /\ Has(tara_pkg, "volume_ml")
            THEN tara_pkg["volume_ml"]
            ELSE 0
        same == [cost |-> cost_price, note |-> ""]
    IN  IF ~cost_tara.text \/ amount <= 0 THEN same
        ELSE IF Abs(1 - amount) * 1000 < amount THEN same
        ELSE [cost |-> round2(cost_price, amount), note |-> "rescaled"]

\* a slip: the amount on the tag is used whatever its dimension
adjust_cost_for_unit_Blind(cost_price, cost_tara, request_unit) ==
    LET tara_pkg == cost_tara.pkg
        target_base == unit_to_base(request_unit)
        amount(pkg) == IF Has(pkg, "weight_g") THEN pkg["weight_g"]
                       ELSE IF Has(pkg, "volume_ml") THEN pkg["volume_ml"] ELSE 0
        same == [cost |-> cost_price, note |-> ""]
    IN  IF ~cost_tara.text \/ DOMAIN tara_pkg = {} \/ DOMAIN target_base = {}
        THEN same
        ELSE IF amount(tara_pkg) <= 0 THEN same
        ELSE IF Abs(amount(target_base) - amount(tara_pkg)) * 1000 < amount(tara_pkg)
        THEN same
        ELSE [cost |-> round2(cost_price * amount(target_base), amount(tara_pkg)),
              note |-> "rescaled"]

\* (cost, note): note is "" or names the kind of note that is written
adjust_cost_for_unit(cost_price, cost_tara, request_unit) ==
    LET tara_pkg == cost_tara.pkg
        target_base == unit_to_base(request_unit)
        ratio ==
            IF Has(target_base, "weight_g") /\ Has(tara_pkg, "weight_g")
            THEN IF tara_pkg["weight_g"] > 0
                 THEN <<target_base["weight_g"], tara_pkg["weight_g"]>>
                 ELSE <<>>
            ELSE IF Has(target_base, "volume_ml") /\ Has(tara_pkg, "volume_ml")
            THEN IF tara_pkg["volume_ml"] > 0
                 THEN <<target_base["volume_ml"], tara_pkg["volume_ml"]>>
                 ELSE <<>>
            ELSE <<>>
        kind(pkg) ==
            IF Has(pkg, "weight_g") THEN "weight"
            ELSE IF Has(pkg, "volume_ml") THEN "volume" ELSE "?"
        same == [cost |-> cost_price, note |-> ""]
    IN  IF ~cost_tara.text \/ request_unit = "" THEN same
        ELSE IF DOMAIN tara_pkg = {} THEN same
        ELSE IF DOMAIN target_base = {} THEN same
        ELSE IF ratio = <<>>
        THEN IF kind(tara_pkg) # kind(target_base)
             THEN [cost |-> cost_price, note |-> "mismatch"]
             ELSE same
        ELSE IF Abs(ratio[1] - ratio[2]) * 1000 < ratio[2] THEN same
        ELSE [cost |-> round2(cost_price * ratio[1], ratio[2]), note |-> "rescaled"]

\* the quantity above which a request quantity is taken for a typing slip
QtyLimit == 100000
QtyLimitHigh == 1000000
\* a competitor price at or above this is not used
CompPriceLimit == 100000000

\* a slip: every corrected quantity is divided by 100
sanitized_qty_Hundredth(raw_qty) ==
    IF raw_qty > QtyLimit THEN raw_qty * 10 ELSE raw_qty * 1000

\* the quantity of the emitted line, in thousandths: qty / 1000 above
\* 1000000, qty / 100 above 100000, else qty
sanitized_qty(raw_qty) ==
    IF raw_qty > QtyLimit
    THEN IF raw_qty > QtyLimitHigh THEN raw_qty ELSE raw_qty * 10
    ELSE raw_qty * 1000

\* a slip: a missing cost leaves no note
cost_tara_note_Silent(cost_price, tagged, adjust_note) ==
    IF tagged
    THEN IF adjust_note # "" THEN <<[note |-> adjust_note]>>
         ELSE <<[note |-> "cost for tara"]>>
    ELSE <<>>

\* tara_note after the cost lookup: the note of the rescaling or of the
\* packaging tag of a matched cost row, replaced by "cost not found" when
\* the cost is not positive
cost_tara_note(cost_price, tagged, adjust_note) ==
    IF cost_price <= 0 THEN <<[note |-> "cost not found"]>>
    ELSE IF tagged
    THEN IF adjust_note # "" THEN <<[note |-> adjust_note]>>
         ELSE <<[note |-> "cost for tara"]>>
    ELSE <<>>

\* a slip: the provenance is written whenever a competitor row was found
match_info_WheneverFound(has_competitor, cost_found, comp_found) ==
    IF comp_found.row # 0
    THEN <<[cost_score |-> cost_found.score, comp_score |-> comp_found.score]>>
    ELSE <<>>

\* the column Матч: the two scores when the line has a competitor, else empty
match_info(has_competitor, cost_found, comp_found) ==
    IF has_competitor
    THEN <<[cost_score |-> cost_found.score, comp_score |-> comp_found.score]>>
    ELSE <<>>

\* one iteration of the loop of match_products: the line for request_row.
\* The note on the quantity shows both values with no decimals ({:.0f}).
MatchedLine(request_row, no) ==
    LET product_name == request_row.name
        unit == request_row.unit
        raw_qty == request_row.qty
        corrected == raw_qty > QtyLimit
        qty == sanitized_qty(raw_qty)
        qty_note == IF corrected
                    THEN <<[note |-> "qty", old |-> raw_qty,
                            new |-> RoundHalfEven(qty, 1000)]>>
                    ELSE <<>>
        cost_found == find_best_match(product_name, cost_df)
        cost_row == IF cost_found.row = 0 THEN [cost |-> 0, tara |-> NoTara]
                    ELSE cost_df[cost_found.row]
        adjusted == adjust_cost_for_unit(cost_row.cost, cost_row.tara, unit)
        cost_price ==
            IF cost_found.row # 0 /\ cost_row.tara.text /\ adjusted.note # ""
            THEN adjusted.cost ELSE cost_row.cost
        cost_note == cost_tara_note(cost_price,
                                    cost_found.row # 0 /\ cost_row.tara.text,
                                    adjusted.note)
        comp_found == find_best_match(product_name, competitor_df)
        comp_row == IF comp_found.row = 0 THEN [price |-> 0, name |-> Name("", <<>>)]
                    ELSE competitor_df[comp_found.row]
        usable == comp_found.row # 0 /\ comp_row.price > 0
                     /\ comp_row.price < CompPriceLimit
        target_pkg == product_name.pkg
        comp_pkg == competitor_df[comp_found.name].name.pkg
        comp_pkg_ok == packaging_compatible(target_pkg, comp_pkg)
        ratio == calc_packaging_ratio(target_pkg, comp_pkg)
        rescalable == ratio # <<>> /\ ratio[1] > 0
        competitor_price ==
            IF ~usable THEN 0
            ELSE IF comp_pkg_ok THEN comp_row.price
            ELSE IF rescalable THEN round2(comp_row.price * ratio[1], ratio[2])
            ELSE 0
        comp_note ==
            IF ~usable \/ comp_pkg_ok THEN <<>>
            ELSE IF rescalable THEN <<[note |-> "competitor rescaled"]>>
            ELSE <<[note |-> "competitor packaging differs"]>>
        has_competitor == usable /\ competitor_price > 0
    IN  [no |-> no,
         name |-> product_name,
         unit |-> unit,
         qty |-> qty,
         cost |-> cost_price,
         comp |-> IF has_competitor THEN competitor_price ELSE 0,
         has_competitor |-> has_competitor,
         match_info |-> match_info(has_competitor, cost_found, comp_found),
         tara |-> qty_note \o cost_note \o comp_note,
         cost_match |-> cost_found,
         comp_match |-> comp_found]

\* ------------------------------------------------------ matching: inputs
MaxRequests == 2
MaxCatalog == 2

RequestDomain ==
    {[name |-> n, unit |-> "kg", qty |-> 50] :
        n \in {Name("a", <<>>), Name("a", [weight_g |-> 400]), Name("", <<>>)}}
    \cup {[name |-> Name("a", <<>>), unit |-> "sht", qty |-> 50],
          [name |-> Name("a", <<>>), unit |-> "l", qty |-> 50]}

CostDomain ==
    {[name |-> Name("a5", <<>>), tara |-> Tara(TRUE, [weight_g |-> 800]), cost |-> 50500],
     [name |-> Name("a10", [weight_g |-> 400]), tara |-> NoTara, cost |-> 66000],
     [name |-> Name("a11", <<>>), tara |-> Tara(TRUE, [volume_ml |-> 1000]), cost |-> 40000]}

CompetitorDomain ==
    {[name |-> Name("a8", <<>>), tara |-> NoTara, price |-> 100000],
     [name |-> Name("a10", [weight_g |-> 1000]), tara |-> NoTara, price |-> 250000],
     [name |-> Name("a11", [weight_g |-> 400]), tara |-> NoTara, price |-> 80000]}

SeqsUpTo(S, n) == UNION {[1..k -> S] : k \in 0..n}

InitMatch ==
    /\ PricingIdle
    /\ PackagingIdle
    /\ UnitIdle
    /\ EconomicsIdle
    /\ SessionIdle
    /\ request_df \in SeqsUpTo(RequestDomain, MaxRequests)
    /\ cost_df \in SeqsUpTo(CostDomain, MaxCatalog)
    /\ competitor_df \in SeqsUpTo(CompetitorDomain, MaxCatalog)
    /\ result_data = <<>>

\* one iteration of "for idx, request_row in request_df.iterrows()"
MatchRow ==
    /\ Len(result_data) < Len(request_df)
    /\ result_data' =
           Append(result_data,
                  MatchedLine(request_df[Len(result_data) + 1], Len(result_data) + 1))
    /\ UNCHANGED <<request_df, cost_df, competitor_df, pricingVars, packagingVars,
                   unitVars, economicsVars,
                   sessionVars>>

NextMatch == MatchRow

SpecMatch == InitMatch /\ [][NextMatch]_vars

\* ------------------------------------------- matching: request quantities
\* quantities around the two limits, a plausible one, zero and a negative one
QtyDomain == {-5, 0, 50, 100000, 100001, 1000000, 1000001, 1500000}

QtyRequestDomain ==
    {[name |-> Name("a", <<>>), unit |-> "kg", qty |-> q] : q \in QtyDomain}

\* match_products on requests that differ in quantity, against catalogs of
\* at most one row
InitQty ==
    /\ PricingIdle
    /\ PackagingIdle
    /\ UnitIdle
    /\ EconomicsIdle
    /\ SessionIdle
    /\ request_df \in SeqsUpTo(QtyRequestDomain, MaxRequests) \ {<<>>}
    /\ cost_df \in SeqsUpTo(CostDomain, 1)
    /\ competitor_df \in SeqsUpTo(CompetitorDomain, 1)
    /\ result_data = <<>>

SpecQty == InitQty /\ [][NextMatch]_vars

\* ---------------------------------------------------------------- pipeline
\* the calculate button: match_products, then calculate_prices with the
\* default target discount on what it returned
PipelineRequestDomain ==
    {[name |-> n, unit |-> "kg", qty |-> q] :
        n \in {Name("a", <<>>), Name("", <<>>)}, q \in {1, 6}}

InitPipeline ==
    /\ PricingIdle
    /\ PackagingIdle
    /\ UnitIdle
    /\ EconomicsIdle
    /\ SessionIdle
    /\ request_df \in SeqsUpTo(PipelineRequestDomain, MaxRequests) \ {<<>>}
    /\ cost_df \in SeqsUpTo(CostDomain, 1)
    /\ competitor_df \in SeqsUpTo(CompetitorDomain, 1)
    /\ result_data = <<>>

\* calculate_prices(matched): the matched lines become the frame to price
HandOver ==
    /\ pc = "idle"
    /\ Len(result_data) = Len(request_df)
    /\ df' = [k \in DOMAIN result_data |->
                 Row(result_data[k].comp, result_data[k].cost,
                     result_data[k].qty \div 1000)]
    /\ result' = df'
    /\ pc' = "call"
    /\ UNCHANGED <<target_discount_percent, fallback_markup_percent, queue,
                   remaining, target_total, delta, flagged, run, prev, totals,
                   residual>>
    /\ UNCHANGED <<packagingVars, matchingVars, unitVars, economicsVars,
                   sessionVars>>

NextPipeline ==
    \/ MatchRow
    \/ HandOver
    \/ InitialPricing
    \/ ComputeDelta
    \/ RedistributeStep
    \/ RedistributeEnd
    \/ SafetyClamp
    \/ CorrectionStart
    \/ CorrectionStep
    \/ CorrectionEnd
    \/ ComputeTotals

SpecPipeline == InitPipeline /\ [][NextPipeline]_vars

\* ------------------------------------------------- cost per requested unit
\* catalog costs in mills: 0.04, 50.50, 50.52, 66.00, 609.03
UnitCosts == {40, 50500, 50520, 66000, 609030}
\* packaging amounts in grams or millilitres
UnitAmounts == {1, 800, 999, 1000, 1001, 5000}
\* the column Тара: empty, text with no packaging in it, a fat percentage
\* only, a zero weight, a weight and a volume, or one amount
UnitTaras ==
    {NoTara, Tara(TRUE, <<>>), Tara(TRUE, [fat_pct |-> 250]),
     Tara(TRUE, [weight_g |-> 0]),
     Tara(TRUE, [weight_g |-> 1000, volume_ml |-> 5000])}
    \cup {Tara(TRUE, [weight_g |-> a]) : a \in UnitAmounts}
    \cup {Tara(TRUE, [volume_ml |-> a]) : a \in UnitAmounts}
\* кг, г, гр, л, мл, шт, уп and the empty unit
Units == {"kg", "g", "gr", "l", "ml", "sht", "up", ""}

InitUnit ==
    /\ PricingIdle
    /\ PackagingIdle
    /\ MatchingIdle
    /\ EconomicsIdle
    /\ SessionIdle
    /\ arg_cost \in UnitCosts
    /\ arg_tara \in UnitTaras
    /\ arg_unit \in Units
    /\ adjusted_cost = [cost |-> 0, note |-> ""]
    /\ converted_back = 0
    /\ unit_pc = "call"

AdjustCost ==
    /\ unit_pc = "call"
    /\ adjusted_cost' = adjust_cost_for_unit(arg_cost, arg_tara, arg_unit)
    /\ unit_pc' = "adjusted"
    /\ UNCHANGED <<arg_cost, arg_tara, arg_unit, converted_back>>
    /\ UNCHANGED <<pricingVars, packagingVars, matchingVars, economicsVars,
                   sessionVars>>

\* the adjusted cost taken back to the catalog packaging, the way
\* match_products applies a packaging ratio: round(price * ratio, 2)
ConvertBack ==
    /\ unit_pc = "adjusted"
    /\ LET ratio == calc_packaging_ratio(arg_tara.pkg, unit_to_base(arg_unit))
       IN  /\ ratio # <<>>
           /\ ratio[1] > 0
           /\ converted_back' = round2(adjusted_cost.cost * ratio[1], ratio[2])
    /\ unit_pc' = "back"
    /\ UNCHANGED <<arg_cost, arg_tara, arg_unit, adjusted_cost>>
    /\ UNCHANGED <<pricingVars, packagingVars, matchingVars, economicsVars,
                   sessionVars>>

NextUnit == AdjustCost \/ ConvertBack

SpecUnit == InitUnit /\ [][NextUnit]_vars


\* --------------------------------------------------------------- economics
\* Totals are sums of mills * quantity; a percentage is the fraction
\* <<numerator, denominator>>; the median is kept doubled.
contract_total(rows) ==
    SumTo([i \in DOMAIN rows |-> rows[i].our * rows[i].qty], Len(rows))

cost_total(rows) ==
    SumTo([i \in DOMAIN rows |-> rows[i].cost * rows[i].qty], Len(rows))

\* a slip: the margin is taken on the cost, not on the contract
margin_percent_OnCost(rows) ==
    IF cost_total(rows) > 0
    THEN <<(contract_total(rows) - cost_total(rows)) * 100, cost_total(rows)>>
    ELSE <<0, 1>>

margin_percent(rows) ==
    IF contract_total(rows) > 0
    THEN <<(contract_total(rows) - cost_total(rows)) * 100, contract_total(rows)>>
    ELSE <<0, 1>>

\* discount_percent of calculate_economics over the competitive lines, as
\* the fraction <<numerator, denominator>> of a percent
discount_percent(rows) ==
    IF competitor_total(rows) > 0
    THEN <<(competitor_total(rows) * 1000 - our_comp_total(rows)) \div 10,
           competitor_total(rows)>>
    ELSE <<0, 1>>

comp_cost_total(rows) ==
    SumTo([i \in DOMAIN rows |->
              IF rows[i].comp > 0 THEN rows[i].cost * rows[i].qty ELSE 0],
          Len(rows))

\* a slip: a line with margin 0 counts as a loss
loss_rows_NonPositive(rows) == {i \in DOMAIN rows : rows[i].our - rows[i].cost <= 0}

\* margin_per_item < 0
loss_rows(rows) == {i \in DOMAIN rows : rows[i].our - rows[i].cost < 0}

\* loss_per_position[margin_per_item < 0], sorted ascending
RECURSIVE SortedLosses(_, _)
SortedLosses(rows, S) ==
    IF S = {} THEN <<>>
    ELSE LET loss(i) == (rows[i].our - rows[i].cost) * rows[i].qty
             least == CHOOSE i \in S : \A j \in S : loss(i) <= loss(j)
         IN  <<loss(least)>> \o SortedLosses(rows, S \ {least})

\* twice the median of a sorted sequence
Median2(sorted) ==
    LET n == Len(sorted)
    IN  IF n % 2 = 1 THEN 2 * sorted[(n + 1) \div 2]
        ELSE sorted[n \div 2] + sorted[n \div 2 + 1]

calculate_economics(rows) ==
    LET losses == SortedLosses(rows, loss_rows(rows))
    IN  [contract_total |-> contract_total(rows),
         competitor_total |-> competitor_total(rows),
         our_comp_total |-> our_comp_total(rows) \div 1000,
         cost_total |-> cost_total(rows),
         profit |-> contract_total(rows) - cost_total(rows),
         margin_percent |-> margin_percent(rows),
         discount_percent |-> discount_percent(rows),
         competitor_margin |-> competitor_total(rows) - comp_cost_total(rows),
         loss_positions |-> Cardinality(loss_rows(rows)),
         loss_total_rub |-> IF loss_rows(rows) # {}
                            THEN SumTo(losses, Len(losses)) ELSE 0,
         median_loss2 |-> IF loss_rows(rows) # {} THEN Median2(losses) ELSE 0]

\* priced lines: price 0, 0.99, 52.00; cost 0, 0.996, 40.00, 60.00; with and
\* without competitor
PricedDomain ==
    {[our |-> p, cost |-> c, comp |-> k, qty |-> q] :
        p \in {0, 990, 52000}, c \in {0, 996, 40000, 60000}, k \in {0, 1000},
        q \in {1, 3}}

InitEconomics ==
    /\ PricingIdle
    /\ PackagingIdle
    /\ MatchingIdle
    /\ UnitIdle
    /\ SessionIdle
    /\ econ_df \in SeqsUpTo(PricedDomain, MaxLines)
    /\ economics = <<>>
    /\ summarized = FALSE

Summarize ==
    /\ ~summarized
    /\ economics' = calculate_economics(econ_df)
    /\ summarized' = TRUE
    /\ UNCHANGED econ_df
    /\ UNCHANGED <<pricingVars, packagingVars, matchingVars, unitVars,
                   sessionVars>>

NextEconomics == Summarize

SpecEconomics == InitEconomics /\ [][NextEconomics]_vars

\* ----------------------------------------------------------------- session
\* The priced sheet of one contract in the session: the user edits cells,
\* changes the markup input and presses Recalculate.  A sheet line carries
\* its derived columns sum, margin and margin_percent.

\* the values a cell of the sheet can take, in mills
SheetComps == {0, 1000}
SheetCosts == {0, 996}
SheetQtys == {1, 3}
SheetPrices == {0, 990, 1500}
\* the markup input, in percent
SheetMarkups == {30, 50}

\* a slip: the markup is applied to the current price
recalc_price_Compounded(row, m) ==
    IF row.comp <= 0 /\ row.cost > 0
    THEN round2(row.our * (100 + m), 100)
    ELSE row.our

\* the price Recalculate leaves on a line: round(cost * (1 + markup), 2) when
\* comp <= 0 and cost > 0
recalc_price(row, m) ==
    IF row.comp <= 0 /\ row.cost > 0
    THEN round2(row.cost * (100 + m), 100)
    ELSE row.our

\* the sheet with the three derived columns rewritten
with_totals(rows) ==
    [i \in DOMAIN rows |->
        [rows[i] EXCEPT !.sum = recalculate_totals(rows)[i].sum,
                        !.margin = recalculate_totals(rows)[i].margin,
                        !.margin_percent =
                            recalculate_totals(rows)[i].margin_percent]]

\* the matched frames of the calculate button: a line the redistribution
\* can lower, a line without a cost, a line without a competitor, a line
\* whose cost is above the competitor's price less 0.01
SessionLines ==
    {Row(300000, 50000, 3), Row(300000, 0, 3), Row(0, 996, 1), Row(1000, 996, 1)}
SessionFrames == {<<a, b>> : a \in SessionLines, b \in SessionLines}

InitSession ==
    /\ PackagingIdle
    /\ MatchingIdle
    /\ UnitIdle
    /\ EconomicsIdle
    /\ SessionIdle
    /\ df \in SessionFrames
    /\ target_discount_percent = 1
    /\ fallback_markup_percent = 30
    /\ result = df
    /\ pc = "call"
    /\ queue = <<>>
    /\ remaining = 0
    /\ target_total = 0
    /\ delta = 0
    /\ flagged = FALSE
    /\ run = 1
    /\ prev = <<>>
    /\ totals = <<>>
    /\ residual = 0

\* the calculate button keeps what calculate_prices returned in the session
Store ==
    /\ pc = "done"
    /\ data' = [i \in DOMAIN result |->
                  [comp |-> result[i].comp, cost |-> result[i].cost,
                   qty |-> result[i].qty, our |-> result[i].our,
                   sum |-> totals[i].sum, margin |-> totals[i].margin,
                   margin_percent |-> totals[i].margin_percent]]
    /\ pc' = "stored"
    /\ UNCHANGED <<markup, pressed, returned, edits>>
    /\ UNCHANGED <<df, target_discount_percent, fallback_markup_percent, result,
                   queue, remaining, target_total, delta, flagged, run, prev,
                   totals,
                   residual>>
    /\ UNCHANGED <<packagingVars, matchingVars, unitVars, economicsVars>>

\* the user edits the price of a line; the edit is copied into the session
EditPrice ==
    /\ pc = "stored"
    /\ edits < MaxEdits
    /\ edits' = edits + 1
    /\ \E i \in DOMAIN data, p \in SheetPrices :
           /\ p # data[i].our
           /\ data' = [data EXCEPT ![i].our = p]
    /\ pressed' = FALSE
    /\ UNCHANGED <<markup, returned>>
    /\ UNCHANGED <<pricingVars, packagingVars, matchingVars, unitVars,
                   economicsVars>>

\* the user edits the cost, the competitor price or the quantity of a line
EditInputs ==
    /\ pc = "stored"
    /\ edits < MaxEdits
    /\ edits' = edits + 1
    /\ \E i \in DOMAIN data, k \in SheetComps, c \in SheetCosts, q \in SheetQtys :
           /\ <<k, c, q>> # <<data[i].comp, data[i].cost, data[i].qty>>
           /\ data' = [data EXCEPT ![i].comp = k, ![i].cost = c, ![i].qty = q]
    /\ pressed' = FALSE
    /\ UNCHANGED <<markup, returned>>
    /\ UNCHANGED <<pricingVars, packagingVars, matchingVars, unitVars,
                   economicsVars>>

\* the markup input
SetMarkup ==
    /\ pc = "stored"
    /\ edits < MaxEdits
    /\ edits' = edits + 1
    /\ \E m \in SheetMarkups :
           /\ m # markup
           /\ markup' = m
    /\ pressed' = FALSE
    /\ UNCHANGED <<data, returned>>
    /\ UNCHANGED <<pricingVars, packagingVars, matchingVars, unitVars,
                   economicsVars>>

\* the Recalculate button
Recalculate ==
    /\ pc = "stored"
    /\ data' = with_totals([i \in DOMAIN data |->
                               [data[i] EXCEPT !.our = recalc_price(data[i], markup)]])
    /\ pressed' = TRUE
    /\ UNCHANGED <<markup, returned, edits>>
    /\ UNCHANGED <<pricingVars, packagingVars, matchingVars, unitVars,
                   economicsVars>>

\* recalculate_totals(data): a copy of the sheet with the derived columns
RecalculateTotals ==
    /\ pc = "stored"
    /\ returned' = with_totals(data)
    /\ UNCHANGED <<data, markup, pressed, edits>>
    /\ UNCHANGED <<pricingVars, packagingVars, matchingVars, unitVars,
                   economicsVars>>

NextSession ==
    \/ InitialPricing
    \/ ComputeDelta
    \/ RedistributeStep
    \/ RedistributeEnd
    \/ SafetyClamp
    \/ CorrectionStart
    \/ CorrectionStep
    \/ CorrectionEnd
    \/ ComputeTotals
    \/ Store
    \/ EditPrice
    \/ EditInputs
    \/ SetMarkup
    \/ Recalculate
    \/ RecalculateTotals

SpecSession == InitSession /\ [][NextSession]_vars

\* ------------------------------------------------------------------ claims
Priced ==
    pc \in {"target", "redistribute", "clamp", "correct", "correcting", "totals",
            "done"}
AfterDelta ==
    pc \in {"redistribute", "clamp", "correct", "correcting", "totals", "done"}

\* round(competitor_price - 0.01, 2), the initial price of a competitive line
Ceiling(row) == round2(row.comp - Undercut, 1)

\* C1: when price() has returned, every line with competitor_price > 0 has
\* our_price strictly below competitor_price.
C1_StrictUndercut ==
    pc = "done" =>
        \A i \in DOMAIN result :
            result[i].comp > 0 => result[i].our < result[i].comp

\* C1 witness: price() has returned, delta was more than 0.5 away from 0,
\* and a competitive line ended below its initial undercut price.
C1_Witness ==
    /\ pc = "done"
    /\ Abs(delta) > Tolerance
    /\ \E i \in DOMAIN result :
           /\ result[i].comp > 0
           /\ result[i].our < Ceiling(result[i])
           /\ result[i].our < result[i].comp

\* C2: when price() has returned, every line has our_price >= 0.
C2_NonNegative ==
    pc = "done" => \A i \in DOMAIN result : result[i].our >= 0

\* C3: when price() has returned (with no negative price), the
\* competitive-subset total differs from target_total by at most 0.5, or the
\* shortfall was flagged.
C3_TargetOrFlagged ==
    (/\ pc = "done"
     /\ has_comp(result) # {}
     /\ \A i \in DOMAIN result : result[i].our >= 0) =>
        \/ Abs(our_comp_total(result) - target_total) <= Tolerance
        \/ flagged

C5_NeverIncreased ==
    [][pc # "call" =>
          \A i \in DOMAIN result : result'[i].our <= result[i].our]_vars

\* C5 (amended): redistribution and the safety clamp never raise a price;
\* the correction pass may raise one, but never above
\* round(competitor_price - 0.01, 2), the line's initial price.
C5_RaisedOnlyByCorrection ==
    [][/\ pc \in {"target", "redistribute", "clamp", "correct"} =>
             \A i \in DOMAIN result : result'[i].our <= result[i].our
       /\ pc = "correcting" =>
             \A i \in DOMAIN result :
                 \/ result'[i].our <= result[i].our
                 \/ result'[i].our <= Ceiling(result[i])]_vars

\* C5 witness: the correction pass is about to raise the price of a line
\* that redistribution had lowered.
C5_Witness ==
    /\ pc = "correcting"
    /\ queue # <<>>
    /\ Abs(remaining) > BreakEps
    /\ CorrectedPrice(Head(queue), remaining) > Head(queue).price

\* C6: if delta <= 0 after initial pricing, every line keeps exactly its
\* initial price through redistribution, safety clamp and correction pass.
C6_NoChangeWhenTargetMet ==
    (AfterDelta /\ has_comp(result) # {} /\ delta <= 0) =>
        \A i \in DOMAIN result : result[i].our = InitialPrice(df[i])

\* C6 witness: price() has returned with delta <= 0 after a correction pass
\* that found the total more than 0.5 away from the target and had a
\* candidate line to work on.
C6_Witness ==
    /\ pc = "done"
    /\ has_comp(result) # {}
    /\ delta < -Tolerance
    /\ \E i \in DOMAIN result : IsCandidate(result[i])

\* C7 (as claimed, prices read to the hundredth): the initial price is
\* competitor_price - 0.01, else cost * (1 + fallback_markup_percent / 100)
\* for the markup the caller asks for, else 0.
C7_CallerMarkup ==
    pc = "target" =>
        \A i \in DOMAIN result :
            result[i].our =
                IF result[i].comp > 0 THEN round2(result[i].comp - 10, 1)
                ELSE IF result[i].cost > 0
                     THEN round2(result[i].cost * (100 + fallback_markup_percent), 100)
                     ELSE 0

\* C7 (amended): the initial price is round(competitor_price - 0.01, 2),
\* else round(cost * 1.30, 2) whatever markup the caller wants (price()
\* takes no markup; cost 40.00 gives 52.00), else 0.
C7_FixedMarkup ==
    pc = "target" =>
        \A i \in DOMAIN result :
            /\ result[i].comp > 0 =>
                   result[i].our = 10 * RoundHalfEven(result[i].comp - 10, 10)
            /\ (result[i].comp <= 0 /\ result[i].cost > 0) =>
                   result[i].our = 10 * RoundHalfEven(result[i].cost * 13, 100)
            /\ (result[i].comp <= 0 /\ result[i].cost <= 0) => result[i].our = 0
            /\ (result[i].comp <= 0 /\ result[i].cost = 40000) =>
                   result[i].our = 52000

\* C7 witness: initial pricing has priced a line with no competitor and
\* cost 40.00 while the caller wanted a markup other than 30 %.
C7_Witness ==
    /\ pc = "target"
    /\ fallback_markup_percent # 30
    /\ \E i \in DOMAIN result :
           result[i].comp <= 0 /\ result[i].cost = 40000 /\ result[i].our = 52000

\* the lines of Scenario D, whatever their costs
IsScenarioD(rows) ==
    /\ Len(rows) = 3
    /\ rows[1].comp = 100000 /\ rows[2].comp = 200000 /\ rows[3].comp = 300000
    /\ \A i \in 1..3 : rows[i].qty = 1

\* C8 (as claimed): in Scenario D with target discount 0.1 %,
\* competitor_total = 600, target_total = 599.40, delta <= 0 after the
\* initial undercut, no price is reduced further and the final discount is
\* about 0.5 % (between 0.4 % and 0.6 %).
C8_ScenarioD_NoReduction ==
    (AfterDelta /\ IsScenarioD(result) /\ target_discount_percent = 1) =>
        /\ competitor_total(result) = 600000
        /\ target_total = 599400000
        /\ delta <= 0
        /\ \A i \in 1..3 : result[i].our = result[i].comp - 10
        /\ pc = "done" =>
               /\ ~FracLess(discount_percent(result), <<4, 10>>)
               /\ ~FracLess(<<6, 10>>, discount_percent(result))

\* C8 (amended): in Scenario D with target discount 0.1 %,
\* competitor_total = 600 and target_total = 599.40, but the initial
\* undercut gives 599.97, so delta = 0.57 > 0 and prices are reduced further
\* where a line has room; the final competitive total lies between 599.40
\* and 599.97, so the final discount is between 0.005 % and 0.1 %, and it is
\* 0.1 % (line 1 at 99.42) when every cost is 0 or every cost is 50.
C8_ScenarioD_Reduced ==
    (AfterDelta /\ IsScenarioD(result) /\ target_discount_percent = 1) =>
        /\ competitor_total(result) = 600000
        /\ target_total = 599400000
        /\ delta = 570000
        /\ pc = "done" =>
               /\ our_comp_total(result) >= 599400000
               /\ our_comp_total(result) <= 599970000
               /\ ~FracLess(<<1, 10>>, discount_percent(result))
               /\ ~FracLess(discount_percent(result), <<5, 1000>>)
               /\ (\/ \A i \in 1..3 : result[i].cost = 0
                   \/ \A i \in 1..3 : result[i].cost = 50000) =>
                      /\ result[1].our = 99420
                      /\ result[2].our = 199990
                      /\ result[3].our = 299990
                      /\ discount_percent(result) = <<60000, 600000>>

\* C8 witness: price() has returned for Scenario D with a line reduced
\* below its initial undercut and the total exactly at target_total.
C8_Witness ==
    /\ pc = "done"
    /\ IsScenarioD(result)
    /\ target_discount_percent = 1
    /\ result[1].our = 99420
    /\ our_comp_total(result) = target_total

\* C9: a line's cost or competitor match is a catalog row only if that
\* row's score is >= 90; when find_best_match returns no row, the score it
\* reports is below 90 and the line uses nothing of the reported candidate:
\* cost 0, respectively competitor price 0, no competitor flag, no provenance.
C9_ThresholdRespected ==
    \A k \in DOMAIN result_data :
        LET line == result_data[k]
            target == request_df[k].name
        IN  /\ line.cost_match.row # 0 =>
                   /\ Score(target.norm, cost_df[line.cost_match.row].name.norm) >= 90
                   /\ line.cost_match.score
                          = Score(target.norm, cost_df[line.cost_match.row].name.norm)
            /\ line.cost_match.row = 0 =>
                   /\ line.cost_match.score < 90
                   /\ line.cost = 0
            /\ line.comp_match.row # 0 =>
                   /\ Score(target.norm,
                            competitor_df[line.comp_match.row].name.norm) >= 90
                   /\ line.comp_match.score
                          = Score(target.norm,
                                  competitor_df[line.comp_match.row].name.norm)
            /\ line.comp_match.row = 0 =>
                   /\ line.comp_match.score < 90
                   /\ line.comp = 0
                   /\ ~line.has_competitor
                   /\ line.match_info = <<>>

\* C9 witness: a line was matched whose best cost candidate scored 89 and
\* was refused, while a competitor row scoring >= 90 was accepted.
C9_Witness ==
    \E k \in DOMAIN result_data :
        /\ result_data[k].cost_match.row = 0
        /\ result_data[k].cost_match.score = 89
        /\ result_data[k].cost_match.name # 0
        /\ result_data[k].cost = 0
        /\ result_data[k].comp_match.row # 0
        /\ result_data[k].has_competitor

\* C10: packaging_compatible(p1, p2) is true exactly when every attribute
\* that both sides specify matches within tolerance and no attribute is
\* specified on one side only.
C10_PerAttribute ==
    compared =>
        (compatible <=>
            /\ \A k \in PkgKeys : Has(pkg1, k) <=> Has(pkg2, k)
            /\ \A k \in {"weight_g", "volume_ml"} :
                   (Has(pkg1, k) /\ Has(pkg2, k)) => Abs(pkg1[k] - pkg2[k]) <= 1
            /\ (Has(pkg1, "fat_pct") /\ Has(pkg2, "fat_pct")) =>
                   Abs(pkg1["fat_pct"] - pkg2["fat_pct"]) <= 10
            /\ (Has(pkg1, "count") /\ Has(pkg2, "count")) =>
                   pkg1["count"] = pkg2["count"])

\* the dimension the requested unit shares with the catalog packaging tag
\* (weight first, as adjust_cost_for_unit tests it), "" when there is none
SharedDimension ==
    LET base == unit_to_base(arg_unit)
    IN  IF ~arg_tara.text THEN ""
        ELSE IF Has(base, "weight_g") /\ Has(arg_tara.pkg, "weight_g")
        THEN IF arg_tara.pkg["weight_g"] > 0 THEN "weight_g" ELSE ""
        ELSE IF Has(base, "volume_ml") /\ Has(arg_tara.pkg, "volume_ml")
        THEN IF arg_tara.pkg["volume_ml"] > 0 THEN "volume_ml" ELSE ""
        ELSE ""

\* the amount of the requested unit and of the catalog packaging in the
\* shared dimension
RequestedBase == unit_to_base(arg_unit)[SharedDimension]
CatalogBase == arg_tara.pkg[SharedDimension]

\* n / d rounded to two decimals, ties away from zero (n, d > 0)
RoundHalfUp2(n, d) == Cent * ((2 * n + d * Cent) \div (2 * d * Cent))

\* C11 (as claimed): for a unit кг/г/гр/л/мл whose dimension matches the
\* catalog packaging tag, the resolved cost is cost * (requested_base /
\* catalog_base) rounded to two decimals (50.50 per 800 г gives 63.13 per кг)
\* with a rescale note when |ratio - 1| >= 0.001, and the unchanged cost with
\* no note when |ratio - 1| < 0.001; for шт and unrecognized units the cost
\* is never rescaled.
C11_RescaledToUnit ==
    unit_pc \in {"adjusted", "back"} =>
        /\ SharedDimension # "" =>
               IF Abs(RequestedBase - CatalogBase) * 1000 >= CatalogBase
               THEN /\ adjusted_cost.cost
                           = RoundHalfUp2(arg_cost * RequestedBase, CatalogBase)
                    /\ adjusted_cost.note = "rescaled"
               ELSE adjusted_cost = [cost |-> arg_cost, note |-> ""]
        /\ (/\ arg_cost = 50500
            /\ arg_tara = Tara(TRUE, [weight_g |-> 800])
            /\ arg_unit = "kg") => adjusted_cost.cost = 63130
        /\ (/\ arg_cost = 66000
            /\ arg_tara = Tara(TRUE, [volume_ml |-> 1000])
            /\ arg_unit = "l") => adjusted_cost = [cost |-> 66000, note |-> ""]
        /\ arg_unit \notin {"kg", "g", "gr", "l", "ml"} =>
               adjusted_cost = [cost |-> arg_cost, note |-> ""]

\* C12 (as claimed): rescaling a cost from its packaging to the requested
\* unit of the same dimension and back recovers the cost within one
\* hundredth of a currency unit.
C12_RoundTripWithinCent ==
    unit_pc = "back" => Abs(converted_back - arg_cost) <= Cent

\* C12 (amended): the round trip recovers the cost within
\* 0.005 * (catalog amount / unit amount) + 0.005 when the cost was rescaled,
\* hence within one hundredth when the catalog amount is at most the unit's
\* amount; when the ratio counted as 1 and the cost was left alone, it is
\* recovered within cost * |catalog amount - unit amount| / unit amount + 0.005,
\* exactly when the two amounts are equal.
C12_RoundTripBounded ==
    (unit_pc = "back" /\ SharedDimension # "") =>
        LET err == Abs(converted_back - arg_cost)
        IN  /\ adjusted_cost.note = "rescaled" =>
                   /\ 2 * err * RequestedBase <= Cent * (CatalogBase + RequestedBase)
                   /\ CatalogBase <= RequestedBase => err <= Cent
            /\ adjusted_cost.note = "" =>
                   /\ 2 * err * RequestedBase
                          <= 2 * arg_cost * Abs(CatalogBase - RequestedBase)
                                 + Cent * RequestedBase
                   /\ CatalogBase = RequestedBase => converted_back = arg_cost

\* C12 witness: a cost was rescaled to a larger unit (50.52 per 800 г to
\* 63.15 per кг) and converted back to the cost it started from.
C12_Witness ==
    /\ unit_pc = "back"
    /\ SharedDimension # ""
    /\ adjusted_cost.note = "rescaled"
    /\ CatalogBase < RequestedBase
    /\ adjusted_cost.cost # arg_cost
    /\ converted_back = arg_cost

\* C13: a request quantity above 1000000 is divided by 1000, one above
\* 100000 and at most 1000000 by 100, one of at most 100000 is passed
\* through with no quantity note; a corrected line's note shows the original
\* and the corrected quantity (1500000 becomes 1500 with a note).
C13_QuantitySanitized ==
    \A k \in DOMAIN result_data :
        LET raw == request_df[k].qty
            line == result_data[k]
            notes == {i \in DOMAIN line.tara : line.tara[i].note = "qty"}
        IN  \* line.qty is in thousandths: raw / 1000, raw / 100, raw
            /\ raw > 1000000 => line.qty = raw
            /\ (raw > 100000 /\ raw <= 1000000) => line.qty = raw * 10
            /\ raw <= 100000 => (line.qty = raw * 1000 /\ notes = {})
            /\ raw > 100000 =>
                   /\ notes = {1}
                   /\ line.tara[1].old = raw
                   /\ line.tara[1].new = RoundHalfEven(line.qty, 1000)
            /\ raw = 1500000 => (line.qty = 1500000 /\ line.tara[1].new = 1500)

\* C13 witness: a batch whose first line had quantity 1500000 (divided by
\* 1000, with its note) and whose second had 100001 (divided by 100).
C13_Witness ==
    /\ Len(result_data) = 2
    /\ request_df[1].qty = 1500000
    /\ result_data[1].tara[1] = [note |-> "qty", old |-> 1500000, new |-> 1500]
    /\ request_df[2].qty = 100001
    /\ result_data[2].qty = 1000010

\* the packaging tag of a cost row is of one dimension (mass or volume) and
\* the requested unit of the other
DimensionConflict(tara, unit) ==
    LET base == unit_to_base(unit)
    IN  /\ tara.text
        /\ \/ /\ Has(base, "weight_g")
              /\ Has(tara.pkg, "volume_ml") /\ ~Has(tara.pkg, "weight_g")
           \/ /\ Has(base, "volume_ml")
              /\ Has(tara.pkg, "weight_g") /\ ~Has(tara.pkg, "volume_ml")

\* the competitor row matched for request line k has a usable price, a
\* packaging incompatible with the request's and no positive conversion ratio
CompetitorMismatch(k) ==
    LET found == result_data[k].comp_match
        target_pkg == request_df[k].name.pkg
    IN  /\ found.row # 0
        /\ competitor_df[found.row].price > 0
        /\ competitor_df[found.row].price < CompPriceLimit
        /\ ~packaging_compatible(target_pkg, competitor_df[found.row].name.pkg)
        /\ LET ratio == calc_packaging_ratio(target_pkg,
                                             competitor_df[found.row].name.pkg)
           IN  ratio = <<>> \/ ratio[1] <= 0

\* the cost row matched for request line k has a packaging tag whose
\* dimension conflicts with the requested unit
CostMismatch(k) ==
    /\ result_data[k].cost_match.row # 0
    /\ DimensionConflict(cost_df[result_data[k].cost_match.row].tara,
                         request_df[k].unit)

C15_CompetitorFlagConsistent ==
    \A k \in DOMAIN result_data :
        /\ result_data[k].has_competitor <=> result_data[k].comp > 0
        /\ result_data[k].match_info # <<>> <=> result_data[k].has_competitor

\* C15 witness: a batch with a line that has a competitor and a line whose
\* competitor row was found but not used.
C15_Witness ==
    \E j, k \in DOMAIN result_data :
        /\ result_data[j].has_competitor
        /\ result_data[j].match_info # <<>>
        /\ result_data[k].comp_match.row # 0
        /\ ~result_data[k].has_competitor
        /\ result_data[k].match_info = <<>>

\* C16: match() emits exactly one line per request line, in request order
\* and numbered 1..n; a line for which no cost candidate clears the
\* threshold has cost 0 and a non-empty diagnostic note; if no competitor
\* candidate clears it either, price() gives the line our_price = 0.
C16_FailuresLineScoped ==
    /\ Len(result_data) <= Len(request_df)
    /\ pc # "idle" =>
           (Len(result_data) = Len(request_df) /\ Len(result) = Len(request_df))
    /\ \A k \in DOMAIN result_data :
           /\ result_data[k].no = k
           /\ result_data[k].name = request_df[k].name
           /\ result_data[k].cost_match.row = 0 =>
                  /\ result_data[k].cost = 0
                  /\ result_data[k].tara # <<>>
           /\ (/\ pc = "done"
               /\ result_data[k].cost_match.row = 0
               /\ result_data[k].comp_match.row = 0) => result[k].our = 0

\* C16 witness: a batch was matched and priced in which one line found
\* neither cost nor competitor and another line found both.
C16_Witness ==
    /\ pc = "done"
    /\ \E j, k \in DOMAIN result_data :
           /\ result_data[j].cost_match.row = 0
           /\ result_data[j].comp_match.row = 0
           /\ result[j].our = 0
           /\ result_data[k].cost_match.row # 0
           /\ result_data[k].has_competitor
           /\ result[k].our > 0

\* C17: an empty cost catalog or an empty competitor catalog is an input
\* error: match() emits no line for it (no silently unresolved output).
\* The sequences are loaded frames; a frame that was never loaded (None) is
\* refused by the calculate button before match() is called.
C17_EmptyCatalogRefused ==
    (cost_df = <<>> \/ competitor_df = <<>>) => result_data = <<>>

\* C18: a request quantity that is zero, negative or above 100000 is
\* corrected by match() and the correction is recorded in the line's note.
C18_InvalidQuantityCorrected ==
    \A k \in DOMAIN result_data :
        (request_df[k].qty <= 0 \/ request_df[k].qty > QtyLimit) =>
            /\ result_data[k].qty # request_df[k].qty * 1000
            /\ \E i \in DOMAIN result_data[k].tara :
                   result_data[k].tara[i].note = "qty"

\* the sum of f over the lines in S
RECURSIVE SumOver(_, _)
SumOver(S, f) ==
    IF S = {} THEN 0
    ELSE LET i == CHOOSE j \in S : TRUE IN f[i] + SumOver(S \ {i}, f)

\* C19: calculate_economics returns contract_total = sum(price * qty) and
\* cost_total = sum(cost * qty) over all lines, profit = contract_total -
\* cost_total, margin_percent = profit / contract_total * 100 (0 if
\* contract_total <= 0) and, over the lines with competitor_price > 0,
\* competitor_total, our_total, discount_percent = (competitor_total -
\* our_total) / competitor_total * 100 (0 if competitor_total <= 0) and
\* competitor_margin = competitor_total - the cost total of that subset.
C19_SummaryTotals ==
    summarized =>
        LET all == DOMAIN econ_df
            competitive == {i \in all : econ_df[i].comp > 0}
            price_x_qty == [i \in all |-> econ_df[i].our * econ_df[i].qty]
            cost_x_qty == [i \in all |-> econ_df[i].cost * econ_df[i].qty]
            comp_x_qty == [i \in all |-> econ_df[i].comp * econ_df[i].qty]
            e == economics
        IN  /\ e.contract_total = SumOver(all, price_x_qty)
            /\ e.cost_total = SumOver(all, cost_x_qty)
            /\ e.profit = e.contract_total - e.cost_total
            /\ IF e.contract_total > 0
               THEN e.margin_percent = <<e.profit * 100, e.contract_total>>
               ELSE e.margin_percent[1] = 0
            /\ e.competitor_total = SumOver(competitive, comp_x_qty)
            /\ e.our_comp_total = SumOver(competitive, price_x_qty)
            /\ IF e.competitor_total > 0
               THEN e.discount_percent
                        = <<(e.competitor_total - e.our_comp_total) * 100,
                            e.competitor_total>>
               ELSE e.discount_percent[1] = 0
            /\ e.competitor_margin
                   = e.competitor_total - SumOver(competitive, cost_x_qty)

\* C19 witness: a summary of two lines, one with and one without competitor,
\* with a positive contract total and a positive discount.
C19_Witness ==
    /\ summarized
    /\ Len(econ_df) = 2
    /\ econ_df[1].comp > 0
    /\ econ_df[2].comp = 0
    /\ econ_df[2].our > 0
    /\ economics.contract_total > economics.our_comp_total
    /\ economics.discount_percent[1] > 0
    /\ economics.profit # 0

TotalsExact(row, t) ==
    /\ t.sum = row.our * row.qty
    /\ t.margin = row.our - row.cost
    /\ IF row.our = 0 THEN t.margin_percent = 0
       ELSE 2 * Abs(t.margin_percent * row.our - t.margin * 1000) <= Abs(row.our)
    /\ row.our < row.cost => t.margin < 0

\* the derived columns t of a line are the nearest hundredth of the product
\* and of the difference, and the nearest tenth of a percent of the
\* reported margin over the price
TotalsRounded(row, t) ==
    /\ t.sum % Cent = 0
    /\ 2 * Abs(t.sum - row.our * row.qty) <= Cent
    /\ t.margin % Cent = 0
    /\ 2 * Abs(t.margin - (row.our - row.cost)) <= Cent
    /\ IF row.our = 0 THEN t.margin_percent = 0
       ELSE 2 * Abs(t.margin_percent * row.our - t.margin * 1000) <= Abs(row.our)
    /\ 2 * (row.our - row.cost) < - Cent => t.margin < 0

\* C21 as stated: on every line returned by price() and by
\* recalculate_totals(), sum = our_price * qty, margin = our_price - cost,
\* margin_percent = margin / our_price * 100 (0 when our_price is 0), and a
\* negative margin is reported as negative.
C21_ExactTotals ==
    /\ pc \in {"done", "stored"} =>
           \A i \in DOMAIN result : TotalsExact(result[i], totals[i])
    /\ \A i \in DOMAIN returned : TotalsExact(returned[i], returned[i])

\* C21 amended: on every line returned by price() and by
\* recalculate_totals(), sum is our_price * qty and margin is
\* our_price - cost, each rounded to two decimals, margin_percent is the
\* reported margin over our_price in percent rounded to one decimal (0 when
\* our_price is 0), and a margin of more than half a hundredth below zero is
\* reported as negative, never as zero.
C21_RoundedTotals ==
    /\ pc \in {"done", "stored"} =>
           \A i \in DOMAIN result : TotalsRounded(result[i], totals[i])
    /\ \A i \in DOMAIN returned : TotalsRounded(returned[i], returned[i])

\* C21 witness: price() returned a line with a negative margin, and
\* recalculate_totals returned one for the sheet the user had edited.
C21_Witness ==
    /\ pc = "stored"
    /\ \E i \in DOMAIN result :
           result[i].our < result[i].cost /\ totals[i].margin < 0
    /\ edits > 0
    /\ \E i \in DOMAIN returned :
           /\ returned[i].our < returned[i].cost
           /\ returned[i].margin < 0
           /\ returned[i].margin_percent < 0

\* the line as step 1 prices it
Initial(i) == [df[i] EXCEPT !.our = InitialPrice(df[i])]

\* eligible for redistribution: competitive, cost > 0, qty > 0 and the
\* initial price above the cost
Reducible(i) ==
    /\ df[i].comp > 0
    /\ df[i].cost > 0
    /\ df[i].qty > 0
    /\ Initial(i).our > df[i].cost

\* (price - cost) / price of the initial price
InitialMargin(i) == <<Initial(i).our - df[i].cost, Initial(i).our>>

\* the price of the line is at its cost floor (the cost as round(x, 2)
\* leaves it)
AtFloor(row) == row.our <= row.cost \/ row.our = round2(row.cost, 1)

\* C22 as stated: a line is reduced during redistribution only if every
\* eligible line with a strictly smaller margin_pct has already been
\* reduced all the way to its cost floor.
C22_LowerMarginsExhausted ==
    [][pc = "redistribute" =>
          \A i \in DOMAIN result :
              result'[i].our < result[i].our =>
                  \A j \in DOMAIN result :
                      (Reducible(j) /\ FracLess(InitialMargin(j), InitialMargin(i)))
                          => AtFloor(result[j])]_vars

\* the lines still waiting for their turn in the loop
Waiting == {queue[k].idx : k \in DOMAIN queue}

\* C22 amended: the lines take their turn in ascending order of margin_pct,
\* so a line is reduced during redistribution only if every eligible line
\* with a strictly smaller margin_pct has had its turn and either is at its
\* cost floor or left no more than half a hundredth per unit of the delta.
C22_AscendingOrder ==
    [][pc = "redistribute" =>
          \A i \in DOMAIN result :
              result'[i].our < result[i].our =>
                  \A j \in DOMAIN result :
                      (Reducible(j) /\ FracLess(InitialMargin(j), InitialMargin(i)))
                          => /\ j \notin Waiting
                             /\ \/ AtFloor(result[j])
                                \/ 2 * remaining <= Cent * 1000 * result[j].qty]_vars

\* C22 witness: the loop is about to reduce a line while an eligible line
\* with a smaller margin_pct has had its turn and is above its cost floor.
C22_Witness ==
    /\ pc = "redistribute"
    /\ queue # <<>>
    /\ remaining > BreakEps
    /\ Head(queue).max_reduction_total > 0
    /\ \E j \in DOMAIN result :
           /\ Reducible(j)
           /\ FracLess(InitialMargin(j), InitialMargin(Head(queue).idx))
           /\ result[j].our < Initial(j).our
           /\ ~ AtFloor(result[j])

\* C23: across the whole of price(), a competitive line's our_price is
\* lowered below its initial undercut price only if the line has cost > 0,
\* qty > 0 and an initial our_price above its cost; a line with cost = 0 or
\* qty = 0 keeps its initial price.
C23_OnlyEligibleLowered ==
    Priced =>
        \A i \in DOMAIN result :
            (df[i].comp > 0 /\ result[i].our < Initial(i).our) => Reducible(i)

\* C24: every competitive line whose cost is positive and below its initial
\* undercut price has our_price >= cost when price() returns and at every
\* point before: neither redistribution nor the correction pass pushes a
\* price below the line's cost.
C24_CostFloor ==
    Priced =>
        \A i \in DOMAIN result :
            (df[i].comp > 0 /\ df[i].cost > 0 /\ df[i].cost < Initial(i).our)
                => result[i].our >= df[i].cost

\* C25 as stated: a line with competitor_price > 0 whose cost is at least
\* competitor_price - 0.01 ends price() with our_price exactly
\* competitor_price - 0.01.
C25_NegativeMarginUntouched ==
    pc = "done" =>
        \A i \in DOMAIN result :
            (df[i].comp > 0 /\ df[i].cost >= df[i].comp - Undercut)
                => result[i].our = df[i].comp - Undercut

\* C25 amended: a line with competitor_price > 0 whose cost is at least its
\* initial price round(competitor_price - 0.01, 2) has exactly that price
\* after step 1, through redistribution, clamp and correction, and when
\* price() returns, whatever delta is and whatever happens to other lines.
C25_AtOrBelowCostUntouched ==
    Priced =>
        \A i \in DOMAIN result :
            (df[i].comp > 0 /\ df[i].cost >= Ceiling(df[i]))
                => result[i].our = Ceiling(df[i])

\* C25 witness: price() has returned with delta > 0, a line priced at or
\* below its cost kept its initial price and another line was lowered.
C25_Witness ==
    /\ pc = "done"
    /\ delta > 0
    /\ \E i, j \in DOMAIN result :
           /\ df[i].comp > 0
           /\ df[i].cost >= Ceiling(df[i])
           /\ result[i].our = Ceiling(df[i])
           /\ result[j].our < Initial(j).our

\* (p - cost) / p of a line as the correction pass finds it
Margin(row) == <<row.our - row.cost, row.our>>

\* one step of the correction pass takes the candidates in descending order
\* of margin: whoever is changed has a margin no smaller than that of every
\* candidate still waiting
DescendingTurn ==
    pc = "correcting" =>
        \A i \in DOMAIN result :
            result'[i].our # result[i].our =>
                \A k \in DOMAIN queue :
                    ~ FracLess(Margin(result[i]), Margin(result[queue[k].idx]))

\* C26 as stated: the correction pass changes a price only when, after the
\* safety clamp, the competitive total exceeds target_total by more than
\* 0.5; it then takes the residual from the candidates in descending order
\* of margin.
C26_OnlyAboveTarget ==
    [][/\ (pc \in {"correct", "correcting"} /\ result' # result)
              => residual > Tolerance
       /\ DescendingTurn]_vars

\* C26 amended: the correction pass changes a price only when, after the
\* safety clamp, the competitive total is more than 0.5 away from
\* target_total, above or below; it then works through the candidates in
\* descending order of margin, and when the total was below the target a
\* price it raises stays at or below the undercut price.
C26_OnlyBeyondTolerance ==
    [][/\ (pc \in {"correct", "correcting"} /\ result' # result)
              => Abs(residual) > Tolerance
       /\ (pc = "correcting" /\ residual < 0)
              => \A i \in DOMAIN result :
                     result'[i].our > result[i].our
                         => result'[i].our <= Ceiling(result[i])
       /\ DescendingTurn]_vars

\* C26 witness: the correction pass, entered with the total more than 0.5
\* below the target, is about to raise the price of a candidate.
C26_Witness ==
    /\ pc = "correcting"
    /\ residual < - Tolerance
    /\ queue # <<>>
    /\ Abs(remaining) > BreakEps
    /\ CorrectedPrice(Head(queue), remaining) > Head(queue).price

\* the rows of a catalog that score at least 90 against the target
Accepted(target, candidates) ==
    {i \in DOMAIN candidates :
        /\ candidates[i].name.norm # ""
        /\ Score(target.norm, candidates[i].name.norm) >= 90}

\* the accepted rows whose packaging is compatible with the target's
AcceptedCompatible(target, candidates) ==
    {i \in Accepted(target, candidates) :
        packaging_compatible(target.pkg, get_row_packaging(candidates[i]))}

\* row is a highest-scoring member of S
BestOf(row, S, target, candidates) ==
    /\ row \in S
    /\ \A j \in S : Score(target.norm, candidates[j].name.norm)
                         <= Score(target.norm, candidates[row].name.norm)

\* the row found is the best compatible accepted row when there is one, and
\* the best accepted row otherwise
PrefersCompatible(found, target, candidates) ==
    IF AcceptedCompatible(target, candidates) # {}
    THEN BestOf(found.row, AcceptedCompatible(target, candidates), target, candidates)
    ELSE Accepted(target, candidates) # {}
             => BestOf(found.row, Accepted(target, candidates), target, candidates)

IsMarkupPrice(p, cost, m) ==
    /\ p % Cent = 0
    /\ 2 * Abs(100 * p - cost * (100 + m)) <= 100 * Cent

\* the lines Recalculate reprices
Repriced(row) == row.comp <= 0 /\ row.cost > 0

\* C28: each press of Recalculate sets our_price = round(cost * (1 +
\* markup/100), 2) on exactly the lines with competitor_price <= 0 and
\* cost > 0 and leaves our_price of every other line, user-edited
\* competitive lines included, unchanged; as long as neither the markup nor
\* the data is changed after a press, the repriced lines hold that price, so
\* pressing again changes no price.
C28_RecalculateStable ==
    [][/\ (pc = "stored" /\ pressed' /\ returned' = returned) =>
              \A i \in DOMAIN data :
                  IF Repriced(data[i])
                  THEN IsMarkupPrice(data'[i].our, data[i].cost, markup)
                  ELSE data'[i].our = data[i].our
       /\ pressed' =>
              \A i \in DOMAIN data' :
                  /\ Repriced(data'[i]) =>
                         IsMarkupPrice(data'[i].our, data'[i].cost, markup')
                  /\ recalc_price(data'[i], markup') = data'[i].our]_vars

\* C28 witness: Recalculate has been pressed after the user changed the
\* markup and edited the price of a competitive line; the edited price is
\* still there and a line without competitor carries the new markup.
C28_Witness ==
    /\ pc = "stored"
    /\ pressed
    /\ markup = 50
    /\ \E i, j \in DOMAIN data :
           /\ data[i].comp > 0
           /\ data[i].our # result[i].our
           /\ Repriced(data[j])
           /\ data[j].our # result[j].our
           /\ IsMarkupPrice(data[j].our, data[j].cost, 50)

\* C29: the safety clamp is never the step that changes a price: when it
\* runs, every line with competitor_price > 0 already has our_price at or
\* below competitor_price - 0.01 rounded to two decimals, and the clamp
\* leaves every price as it finds it.
C29_ClampChangesNothing ==
    [][pc = "clamp" =>
          /\ \A i \in DOMAIN result :
                 result[i].comp > 0 => result[i].our <= Ceiling(result[i])
          /\ \A i \in DOMAIN result : result'[i].our = result[i].our]_vars

\* C29 witness: the safety clamp is about to run after a redistribution
\* that lowered a competitive line, next to a line that stayed at its
\* undercut price.
C29_Witness ==
    /\ pc = "clamp"
    /\ delta > 0
    /\ \E i, j \in DOMAIN result :
           /\ result[i].comp > 0
           /\ result[i].our < Ceiling(result[i])
           /\ result[j].comp > 0
           /\ result[j].our = Ceiling(result[j])

\* the price of a line without a competitor: the cost plus 30 %, rounded to
\* two decimals, or 0 when the cost is unresolved
IsFallbackPrice(p, cost) ==
    IF cost > 0
    THEN p % Cent = 0 /\ 2 * Abs(100 * p - cost * MarkupFactor) <= 100 * Cent
    ELSE p = 0

\* what price() leaves alone: one line per input line, quantity, cost and
\* competitor_price as given, and the markup price of a line without a
\* competitor
FrameKept ==
    /\ Len(result) = Len(df)
    /\ \A i \in DOMAIN df :
           /\ result[i].comp = df[i].comp
           /\ result[i].cost = df[i].cost
           /\ result[i].qty = df[i].qty
           /\ df[i].comp <= 0 => IsFallbackPrice(result[i].our, df[i].cost)

====
